---- MODULE Spec2Model ----
(***************************************************************************)
(* Model of the employee REST API of server.js: the employees table held   *)
(* in Postgres (rows, the SERIAL sequence, the unique index on emp_number, *)
(* NOW()), the one-time initialization gate, and the four route handlers.  *)
(* Every request issues exactly one SQL statement; a statement executes    *)
(* atomically in the store, so a request is modelled by two steps: the     *)
(* synchronous part of the handler up to `await pool.query`, and the       *)
(* statement together with the response computed from its result.          *)
(*                                                                         *)
(* JavaScript strings are sequences of one-character strings, so that      *)
(* String.prototype.trim can be computed rather than assumed.              *)
(***************************************************************************)
EXTENDS Integers, Sequences, FiniteSets, TLC

VARIABLES
    isServerless,       \* Boolean(process.env.VERCEL)
    env,                \* process.env: the configured origins
    ensureTableRuns,    \* how many times ensureTable() has been called
    ensureTablePromise, \* "undefined" | "pending" | "fulfilled" | "rejected"
    listening,          \* app.listen has been called
    exited,             \* process.exit(1) has been called
    uniqueIndex,        \* employees_emp_number_key exists
    table,              \* rows of employees
    nextId,             \* next value of the SERIAL sequence of employees.id
    now,                \* the store's clock, read by NOW()
    slots,              \* per client: the request in flight and its response
    delHist             \* history: per number, what happened since its last DELETE

vars == <<isServerless, env, ensureTableRuns, ensureTablePromise, listening, exited,
          uniqueIndex, table, nextId, now, slots, delHist>>

gateVars == <<isServerless, env, ensureTableRuns, ensureTablePromise, listening, exited,
              uniqueIndex>>
storeVars == <<table, nextId, now, delHist>>

-----------------------------------------------------------------------------
(* Bounds *)

MaxId == 2
MaxClock == 1

\* The clients of the sequential specification and of the racing one.
Clients == {"c1"}
RaceClients == {"c1", "c2"}

-----------------------------------------------------------------------------
(* JavaScript values *)

\* A field that is absent from the body: distinct from every string.
Undefined == <<"undefined">>

\* !v is false exactly for a non-empty string.
Truthy(v) == v # Undefined /\ v # <<>>

IsWhiteSpace(ch) == ch = " "

RECURSIVE TrimStart(_)
TrimStart(s) ==
    IF s = <<>> THEN <<>>
    ELSE IF IsWhiteSpace(Head(s)) THEN TrimStart(Tail(s)) ELSE s

RECURSIVE TrimEnd(_)
TrimEnd(s) ==
    IF s = <<>> THEN <<>>
    ELSE IF IsWhiteSpace(s[Len(s)]) THEN TrimEnd(SubSeq(s, 1, Len(s) - 1)) ELSE s

\* String.prototype.trim
Trim(s) == TrimEnd(TrimStart(s))

\* newNumber?.trim()
OptTrim(v) == IF v = Undefined THEN Undefined ELSE Trim(v)

\* The request inputs the model draws from.
BodyNumbers == {<<>>, <<"a">>, <<"b">>, <<" ", "a">>}
PathNumbers == {<<"a">>, <<"b">>, <<" ", "a">>}
CreateNames == {Undefined, <<"x">>}
UpdateNames == {<<>>, <<"y">>}
BodyNewNumbers == {Undefined, <<" ">>, <<"a">>, <<" ", "a">>}
RaceNumbers == {<<"a">>, <<"b">>}
RaceTargets == {<<"c">>}

Numbers == PathNumbers \cup RaceTargets

-----------------------------------------------------------------------------
(* Requests and responses *)

NoRow == <<>>

\* A header that the request does not carry (also null in buildCorsOptions).
NoHeader ==
    [present |-> FALSE, valid |-> FALSE, scheme |-> "", host |-> <<>>, port |-> 0,
     path |-> ""]

\* A string that new URL() parses: scheme://host[:port][path]. The host is its
\* sequence of labels, port 0 stands for no port in the string.
Url(scheme, host, port, path) ==
    [present |-> TRUE, valid |-> TRUE, scheme |-> scheme, host |-> host, port |-> port,
     path |-> path]

\* A non-empty string on which new URL() throws.
Raw(text) ==
    [present |-> TRUE, valid |-> FALSE, scheme |-> "", host |-> <<text>>, port |-> 0,
     path |-> ""]

\* A Host header value host[:port].
HostValue(host, port) ==
    [present |-> TRUE, valid |-> FALSE, scheme |-> "", host |-> host, port |-> port,
     path |-> ""]

IdleSlot ==
    [pc |-> "idle", route |-> "none", number |-> Undefined, name |-> Undefined,
     newNumber |-> Undefined, status |-> 0, kind |-> "none", error |-> "",
     rows |-> NoRow, paired |-> FALSE, origin |-> NoHeader, host |-> NoHeader,
     gate |-> "none"]

Request(route, number, name, newNumber) ==
    [IdleSlot EXCEPT !.pc = "received", !.route = route, !.number = number,
                     !.name = name, !.newNumber = newNumber]

\* res.status(s).json({ error: msg })
ErrorResponse(slot, s, msg) ==
    [slot EXCEPT !.pc = "done", !.status = s, !.kind = "error", !.error = msg]

\* res.status(s).json({ employee: {...} })
EmployeeResponse(slot, s, row) ==
    [slot EXCEPT !.pc = "done", !.status = s, !.kind = "employee", !.rows = <<row>>]

\* res.json({ employees: rows.map(...) })
EmployeesResponse(slot, rs) ==
    [slot EXCEPT !.pc = "done", !.status = 200, !.kind = "employees", !.rows = rs]

\* res.json({ status: 'deleted' })
DeletedResponse(slot) ==
    [slot EXCEPT !.pc = "done", !.status = 200, !.kind = "deleted"]

\* res.json({ status: 'ok' }) and res.status(500).json({ status: 'error' })
HealthResponse(slot, s, text) ==
    [slot EXCEPT !.pc = "done", !.status = s,
                 !.kind = IF text = "ok" THEN "status ok" ELSE "status error"]

\* next(err) of the cors middleware: express's default error handler answers
\* 500 with an HTML page.
CorsError(slot) ==
    [slot EXCEPT !.pc = "done", !.status = 500, !.kind = "html"]

AwaitQuery(slot) == [slot EXCEPT !.pc = "query"]

\* The request with its Origin and Host headers.
WithHeaders(req, origin, host) == [req EXCEPT !.origin = origin, !.host = host]

-----------------------------------------------------------------------------
(* Origins *)

\* The port a URL of this scheme has when it names none.
DefaultPort(scheme) ==
    IF scheme = "http" THEN 80 ELSE IF scheme = "https" THEN 443 ELSE 0

\* new URL(origin).origin, or the string itself when it does not parse.
normalizeOrigin(origin) ==
    IF origin.valid
    THEN [origin EXCEPT !.port = IF @ = DefaultPort(origin.scheme) THEN 0 ELSE @,
                        !.path = ""]
    ELSE origin

\* normalizeOrigins: the non-empty entries, each normalized.
normalizeOrigins(rawOrigins) ==
    {normalizeOrigin(raw) : raw \in {r \in rawOrigins : r.present}}

\* `https://${host}`
WithScheme(scheme, h) == [h EXCEPT !.valid = TRUE, !.scheme = scheme]

defaultOrigins ==
    {Url(scheme, host, port, "") :
        scheme \in {"http", "https"},
        host \in {<<"localhost">>, <<"127", "0", "0", "1">>},
        port \in {5173, 4173}}

\* CLIENT_ORIGIN, CLIENT_ORIGINS, ALLOWED_ORIGINS, ... split into entries
envOrigins == normalizeOrigins(env.CLIENT_ORIGIN)

vercelOrigin ==
    IF env.VERCEL_URL.present THEN WithScheme("https", env.VERCEL_URL) ELSE NoHeader

allowedOrigins ==
    normalizeOrigins(defaultOrigins) \cup envOrigins \cup normalizeOrigins({vercelOrigin})

\* new URL(originHeader).hostname.endsWith('.vercel.app')
EndsWithVercelApp(host) ==
    /\ Len(host) >= 3
    /\ host[Len(host) - 1] = "vercel"
    /\ host[Len(host)] = "app"

\* buildCorsOptions: the set `allowed` of the request.
buildCorsOptions(origin, host) ==
    LET originHeader == IF origin.present THEN normalizeOrigin(origin) ELSE NoHeader
        sameHost == IF host.present
                    THEN {normalizeOrigin(WithScheme("https", host)),
                          normalizeOrigin(WithScheme("http", host))}
                    ELSE {}
        vercelHostAllowed == /\ originHeader.present
                             /\ originHeader.valid
                             /\ EndsWithVercelApp(originHeader.host)
    IN  allowedOrigins \cup sameHost
            \cup (IF vercelHostAllowed THEN {originHeader} ELSE {})

\* Variant: the origin compared as it was sent.
CorsAllowRaw(origin, allowed) ==
    ~origin.present \/ origin \in allowed

\* The origin callback: allow = !origin || allowed.has(normalizedOrigin)
CorsAllow(origin, allowed) ==
    ~origin.present \/ normalizeOrigin(origin) \in allowed

-----------------------------------------------------------------------------
(* The store: the employees table of ensureTable and the four statements *)

\* Variant: the id is taken from the number of rows instead of the sequence.
InsertRowCountId(id, number, name, t) ==
    [id |-> Cardinality(table) + 1, number |-> number, name |-> name,
     createdAt |-> t, updatedAt |-> t]

\* INSERT INTO employees (emp_number, emp_name): id from the sequence,
\* created_at and updated_at both DEFAULT NOW().
InsertRow(id, number, name, t) ==
    [id |-> id, number |-> number, name |-> name, createdAt |-> t, updatedAt |-> t]

\* employees_emp_number_key: two rows hold the same emp_number.
UniqueViolation(tbl) ==
    \E r1 \in tbl : \E r2 \in tbl : r1 # r2 /\ r1.number = r2.number

\* Variant: the comparison ignores surrounding whitespace.
MatchingTrimmed(tbl, number) == {r \in tbl : Trim(r.number) = Trim(number)}

\* WHERE emp_number = $n
Matching(tbl, number) == {r \in tbl : r.number = number}

\* Variant: the SET clause also overwrites created_at.
SetRowTouchCreated(r, nextNumber, name, t) ==
    [r EXCEPT !.number = nextNumber, !.name = name, !.updatedAt = t, !.createdAt = t]

\* SET emp_number = $1, emp_name = $2, updated_at = NOW()
SetRow(r, nextNumber, name, t) ==
    [r EXCEPT !.number = nextNumber, !.name = name, !.updatedAt = t]

\* UPDATE employees SET ... WHERE emp_number = $3
UpdateRows(tbl, nextNumber, name, currentNumber, t) ==
    {IF r.number = currentNumber THEN SetRow(r, nextNumber, name, t) ELSE r : r \in tbl}

\* DELETE FROM employees WHERE emp_number = $1
DeleteRows(tbl, number) == tbl \ Matching(tbl, number)

\* pool.query of the INSERT: the rows after it, the RETURNING rows, the error code.
PgInsert(tbl, id, number, name, t, indexed) ==
    LET row == InsertRow(id, number, name, t)
    IN  IF indexed /\ UniqueViolation(tbl \cup {row})
        THEN [code |-> "23505", table |-> tbl, rows |-> {}]
        ELSE [code |-> "", table |-> tbl \cup {row}, rows |-> {row}]

\* Variant: the UPDATE is not checked against the unique index.
PgUpdateUnchecked(tbl, nextNumber, name, currentNumber, t, indexed) ==
    [code |-> "", table |-> UpdateRows(tbl, nextNumber, name, currentNumber, t),
     rows |-> {SetRow(r, nextNumber, name, t) : r \in Matching(tbl, currentNumber)}]

\* pool.query of the UPDATE
PgUpdate(tbl, nextNumber, name, currentNumber, t, indexed) ==
    LET new == UpdateRows(tbl, nextNumber, name, currentNumber, t)
    IN  IF indexed /\ UniqueViolation(new)
        THEN [code |-> "23505", table |-> tbl, rows |-> {}]
        ELSE [code |-> "", table |-> new,
              rows |-> {SetRow(r, nextNumber, name, t) : r \in Matching(tbl, currentNumber)}]

\* Variant: a soft delete that reports the rows and keeps them.
PgDeleteSoft(tbl, number) ==
    [code |-> "", table |-> tbl, rows |-> Matching(tbl, number)]

\* pool.query of the DELETE
PgDelete(tbl, number) ==
    [code |-> "", table |-> DeleteRows(tbl, number), rows |-> Matching(tbl, number)]

\* Variant: ORDER BY created_at ASC
CreatedAsc(rs) ==
    \A i \in 1..Len(rs) : \A j \in 1..Len(rs) :
        i < j => rs[i].createdAt <= rs[j].createdAt

\* ORDER BY created_at DESC
CreatedDesc(rs) ==
    \A i \in 1..Len(rs) : \A j \in 1..Len(rs) :
        i < j => rs[i].createdAt >= rs[j].createdAt

\* SELECT ... FROM employees ORDER BY created_at DESC: every row once, in an
\* order the ORDER BY clause admits (rows of equal created_at in any order).
SelectAll(tbl) ==
    {rs \in [1..Cardinality(tbl) -> tbl] :
        /\ \A r \in tbl : \E i \in 1..Cardinality(tbl) : rs[i] = r
        /\ CreatedDesc(rs)}

\* Variant: const nextNumber = newNumber || currentNumber
NextNumberUntrimmed(newNumber, currentNumber) ==
    IF Truthy(newNumber) THEN newNumber ELSE currentNumber

\* const nextNumber = newNumber?.trim() || currentNumber
NextNumber(newNumber, currentNumber) ==
    IF Truthy(OptTrim(newNumber)) THEN OptTrim(newNumber) ELSE currentNumber

-----------------------------------------------------------------------------
(* The route handlers up to their `await pool.query` *)

\* Variant: only the name is validated.
PostEmployeesNameOnly(slot) ==
    IF ~Truthy(slot.name)
    THEN ErrorResponse(slot, 400, "Both employee number and name are required.")
    ELSE AwaitQuery(slot)

PostEmployees(slot) ==
    IF ~Truthy(slot.number) \/ ~Truthy(slot.name)
    THEN ErrorResponse(slot, 400, "Both employee number and name are required.")
    ELSE AwaitQuery(slot)

GetEmployees(slot) == AwaitQuery(slot)

PutEmployee(slot) ==
    IF ~Truthy(slot.number)
    THEN ErrorResponse(slot, 400, "Employee number is required.")
    ELSE IF ~Truthy(slot.name)
    THEN ErrorResponse(slot, 400, "Employee name is required.")
    ELSE AwaitQuery(slot)

DeleteEmployee(slot) ==
    IF ~Truthy(slot.number)
    THEN ErrorResponse(slot, 400, "Employee number is required.")
    ELSE AwaitQuery(slot)

\* app.get('/health')
GetHealth(slot) == AwaitQuery(slot)

\* The routes of app.
Routes(slot) ==
    CASE slot.route = "create" -> PostEmployees(slot)
      [] slot.route = "list" -> GetEmployees(slot)
      [] slot.route = "update" -> PutEmployee(slot)
      [] slot.route = "delete" -> DeleteEmployee(slot)
      [] slot.route = "health" -> GetHealth(slot)

\* app(req, res): the cors middleware, then the router
App(slot) ==
    IF CorsAllow(slot.origin, buildCorsOptions(slot.origin, slot.host))
    THEN Routes(slot)
    ELSE CorsError(slot)

\* The requests a client can send.
AllRequests ==
    {Request("create", n, m, Undefined) : n \in BodyNumbers, m \in CreateNames}
    \cup {Request("list", Undefined, Undefined, Undefined)}
    \cup {Request("update", n, m, w) : n \in PathNumbers, m \in UpdateNames, w \in BodyNewNumbers}
    \cup {Request("delete", n, Undefined, Undefined) : n \in PathNumbers}

\* A deployment with a configured client origin, given with a path, and a
\* deployment host.
GateEnv ==
    [CLIENT_ORIGIN |-> {Url("https", <<"app", "example">>, 0, "/index.html")},
     VERCEL_URL |-> HostValue(<<"vibe", "vercel", "app">>, 0)]

\* The Host header of the requests to the API.
ServerHost == HostValue(<<"api", "example">>, 0)

\* The Origin headers of the requests: none, a default, the configured one with
\* its port spelled out, the API's own host, a preview deployment, foreign
\* ones, and the string null.
Origins ==
    {NoHeader,
     Url("http", <<"localhost">>, 5173, ""),
     Url("https", <<"app", "example">>, 443, ""),
     Url("http", <<"api", "example">>, 0, ""),
     Url("https", <<"preview", "vercel", "app">>, 0, ""),
     Url("https", <<"evilvercel", "app">>, 0, ""),
     Url("https", <<"evil", "example">>, 0, ""),
     Raw("null")}

\* The Origin and Host headers of a request; Host is missing only from a
\* HTTP/1.0 request.
Headers ==
    {<<o, ServerHost>> : o \in Origins}
        \cup {<<Url("http", <<"api", "example">>, 0, ""), NoHeader>>}

\* Requests with and without their required fields, and the probe.
GateRoutes ==
    {Request("create", n, m, Undefined) :
        n \in {Undefined, <<>>, <<"a">>}, m \in {Undefined, <<>>, <<"x">>}}
    \cup {Request("list", Undefined, Undefined, Undefined)}
    \cup {Request("update", <<"a">>, m, w) :
        m \in {Undefined, <<>>, <<"y">>}, w \in {Undefined, <<"b">>}}
    \cup {Request("delete", <<"a">>, Undefined, Undefined)}
    \cup {Request("health", Undefined, Undefined, Undefined)}

GateRequests == {WithHeaders(req, h[1], h[2]) : req \in GateRoutes, h \in Headers}

\* The requests of the race: inserts of, and renames to, the same number.
RaceRequests ==
    {Request("create", n, <<"x">>, Undefined) : n \in RaceNumbers \cup RaceTargets}
    \cup {Request("update", n, <<"y">>, w) : n \in RaceNumbers, w \in RaceTargets}

-----------------------------------------------------------------------------
(* Initialization gate *)

\* No origin is configured.
NoEnv == [CLIENT_ORIGIN |-> {}, VERCEL_URL |-> NoHeader]

\* The process once the module is loaded, with process.env = e.
InitEnv(e) ==
    /\ isServerless \in BOOLEAN
    /\ env = e
    /\ ensureTableRuns = IF isServerless THEN 0 ELSE 1
    \* start() runs at module load unless serverless, and calls ensureDatabaseReady
    /\ ensureTablePromise = IF isServerless THEN "undefined" ELSE "pending"
    /\ listening = FALSE
    /\ exited = FALSE
    /\ uniqueIndex = FALSE
    /\ table = {}
    /\ nextId = 1
    /\ now = 0
    /\ slots = [c \in RaceClients |-> IdleSlot]
    /\ delHist = [n \in Numbers |-> "none"]

Init == InitEnv(NoEnv)

InitGate == InitEnv(GateEnv)

\* Variant: ensureTable without the CREATE UNIQUE INDEX statement.
EnsureTableNoIndex ==
    /\ ensureTablePromise = "pending"
    /\ ensureTablePromise' = "fulfilled"
    /\ UNCHANGED <<isServerless, env, ensureTableRuns, listening, exited, uniqueIndex, storeVars, slots>>

\* ensureTable runs to completion: table, updated_at column, unique index.
EnsureTableResolve ==
    /\ ensureTablePromise = "pending"
    /\ ensureTablePromise' = "fulfilled"
    /\ uniqueIndex' = TRUE
    /\ UNCHANGED <<isServerless, env, ensureTableRuns, listening, exited, storeVars, slots>>

\* One of the statements of ensureTable throws.
EnsureTableReject ==
    /\ ensureTablePromise = "pending"
    /\ ensureTablePromise' = "rejected"
    /\ UNCHANGED <<isServerless, env, ensureTableRuns, listening, exited, uniqueIndex, storeVars, slots>>

\* Variant: start calls app.listen without awaiting ensureDatabaseReady().
StartListenEarly ==
    /\ ~isServerless /\ ~listening /\ ~exited
    /\ ensureTablePromise \in {"pending", "fulfilled"}
    /\ listening' = TRUE
    /\ UNCHANGED <<isServerless, env, ensureTableRuns, ensureTablePromise, exited, uniqueIndex, storeVars, slots>>

\* start: after await ensureDatabaseReady(), app.listen
StartListen ==
    /\ ~isServerless /\ ~listening /\ ~exited
    /\ ensureTablePromise = "fulfilled"
    /\ listening' = TRUE
    /\ UNCHANGED <<isServerless, env, ensureTableRuns, ensureTablePromise, exited, uniqueIndex, storeVars, slots>>

\* start: catch, process.exit(1)
StartExit ==
    /\ ~isServerless /\ ~listening /\ ~exited
    /\ ensureTablePromise = "rejected"
    /\ exited' = TRUE
    /\ UNCHANGED <<isServerless, env, ensureTableRuns, ensureTablePromise, listening, uniqueIndex, storeVars, slots>>

Free(c) == slots[c].pc = "idle"

\* The number a request tries to take: the insert's number, the rename's newNumber.
Target(slot) ==
    IF slot.route = "create" THEN slot.number
    ELSE IF slot.route = "update" THEN slot.newNumber
    ELSE Undefined

\* History: req arrives at the initialized server while the request of client d
\* is still waiting for its statement, both would take the same number, which
\* no row holds, and each rename is of an existing row of its own.
Races(req, d) ==
    /\ slots[d].pc \in {"handler", "query"}
    /\ ensureTablePromise = "fulfilled"
    /\ App(req).pc = "query" /\ App(slots[d]).pc = "query"
    /\ Truthy(Target(req)) /\ Target(req) = Target(slots[d])
    /\ Matching(table, Target(req)) = {}
    /\ \A q \in {req, slots[d]} : q.route = "update" => Matching(table, q.number) # {}
    /\ (req.route = "update" /\ slots[d].route = "update") => req.number # slots[d].number

\* The slots once client c has its request in state `slot`.
Arrive(c, req, slot) ==
    [d \in RaceClients |->
        IF d = c THEN [slot EXCEPT !.paired = \E e \in RaceClients \ {c} : Races(req, e)]
        ELSE IF Races(req, d) THEN [slots[d] EXCEPT !.paired = TRUE]
        ELSE slots[d]]

\* A request arrives at the listening standalone server and is routed.
AppRequest(c, req) ==
    /\ listening /\ ~exited
    /\ Free(c)
    /\ slots' = Arrive(c, req, App(req))
    /\ UNCHANGED <<gateVars, storeVars>>

\* Variant: a rejected promise is discarded and ensureTable is run again.
StartsEnsureTableOrRetry(p) == p \in {"undefined", "rejected"}

\* if (!ensureTablePromise): no promise has been stored yet.
StartsEnsureTable(p) == p = "undefined"

\* ensureDatabaseReady: start ensureTable unless a promise is already there.
ensureDatabaseReady(p) == IF StartsEnsureTable(p) THEN "pending" ELSE p

\* Variant: handler calls ensureTable() itself, without the stored promise.
HandlerCallNoMemo(c, req) ==
    /\ isServerless
    /\ Free(c)
    /\ ensureTablePromise' = "pending"
    /\ ensureTableRuns' = ensureTableRuns + 1
    /\ slots' = Arrive(c, req, [req EXCEPT !.pc = "handler", !.gate = ensureTablePromise])
    /\ UNCHANGED <<isServerless, env, listening, exited, uniqueIndex, storeVars>>

\* handler(req, res) up to `await ensureDatabaseReady()`
HandlerCall(c, req) ==
    /\ isServerless
    /\ Free(c)
    /\ ensureTablePromise' = ensureDatabaseReady(ensureTablePromise)
    /\ ensureTableRuns' = IF StartsEnsureTable(ensureTablePromise)
                          THEN ensureTableRuns + 1 ELSE ensureTableRuns
    /\ slots' = Arrive(c, req, [req EXCEPT !.pc = "handler", !.gate = ensureTablePromise])
    /\ UNCHANGED <<isServerless, env, listening, exited, uniqueIndex, storeVars>>

\* handler(req, res) after the await: 500 on rejection, else app(req, res)
HandlerResume(c) ==
    /\ slots[c].pc = "handler"
    /\ ensureTablePromise \in {"fulfilled", "rejected"}
    /\ slots' = [slots EXCEPT ![c] =
            IF ensureTablePromise = "rejected"
            THEN ErrorResponse(slots[c], 500, "API failed to initialize.")
            ELSE App(slots[c])]
    /\ UNCHANGED <<gateVars, storeVars>>

-----------------------------------------------------------------------------
(* The statements and the responses built from their results *)

Querying(c, route) == slots[c].pc = "query" /\ slots[c].route = route

\* The clock advances between statements, by any amount.
Tick ==
    /\ now < MaxClock
    /\ now' = now + 1
    /\ UNCHANGED <<gateVars, table, nextId, slots, delHist>>

\* app.post('/api/employees'): INSERT ... RETURNING, 201 or the catch's 500.
\* The sequence value is consumed also when the insert fails.
PostQuery(c) ==
    /\ Querying(c, "create")
    /\ nextId <= MaxId
    /\ LET s == slots[c]
           res == PgInsert(table, nextId, s.number, s.name, now, uniqueIndex)
       IN  /\ nextId' = nextId + 1
           /\ table' = res.table
           /\ IF res.code # ""
              THEN /\ delHist' = delHist
                   /\ slots' = [slots EXCEPT ![c] = ErrorResponse(s, 500,
                          "Failed to save employee record. See server logs for details.")]
              ELSE /\ delHist' = [delHist EXCEPT ![s.number] = "none"]
                   /\ \E saved \in res.rows :
                          slots' = [slots EXCEPT ![c] = EmployeeResponse(s, 201, saved)]
    /\ UNCHANGED <<gateVars, now>>

\* app.get('/api/employees')
GetQuery(c) ==
    /\ Querying(c, "list")
    /\ \E rs \in SelectAll(table) :
           slots' = [slots EXCEPT ![c] = EmployeesResponse(slots[c], rs)]
    /\ UNCHANGED <<gateVars, storeVars>>

\* app.put('/api/employees/:number'): UPDATE ... RETURNING; 409 on error code
\* 23505, 404 when rowCount is 0, else 200 with rows[0].
PutQuery(c) ==
    /\ Querying(c, "update")
    /\ LET s == slots[c]
           nextNumber == NextNumber(s.newNumber, s.number)
           res == PgUpdate(table, nextNumber, s.name, s.number, now, uniqueIndex)
       IN  /\ table' = res.table
           /\ IF res.code = "23505"
              THEN /\ delHist' = delHist
                   /\ slots' = [slots EXCEPT ![c] =
                          ErrorResponse(s, 409, "Employee number already exists.")]
              ELSE IF Cardinality(res.rows) = 0
              THEN /\ delHist' = delHist
                   /\ slots' = [slots EXCEPT ![c] =
                          ErrorResponse(s, 404, "Employee not found.")]
              ELSE /\ delHist' = [delHist EXCEPT ![nextNumber] =
                          IF nextNumber # s.number /\ @ = "deleted" THEN "reheld" ELSE @]
                   /\ \E updated \in res.rows :
                          slots' = [slots EXCEPT ![c] = EmployeeResponse(s, 200, updated)]
    /\ UNCHANGED <<gateVars, nextId, now>>

\* app.delete('/api/employees/:number'): 404 when rowCount is 0
DeleteQuery(c) ==
    /\ Querying(c, "delete")
    /\ LET s == slots[c]
           res == PgDelete(table, s.number)
       IN  /\ table' = res.table
           /\ IF Cardinality(res.rows) = 0
              THEN /\ delHist' = delHist
                   /\ slots' = [slots EXCEPT ![c] =
                          ErrorResponse(s, 404, "Employee not found.")]
              ELSE /\ delHist' = [delHist EXCEPT ![s.number] = "deleted"]
                   /\ slots' = [slots EXCEPT ![c] = DeletedResponse(s)]
    /\ UNCHANGED <<gateVars, nextId, now>>

\* app.get('/health'): SELECT 1
HealthQuery(c) ==
    /\ Querying(c, "health")
    /\ slots' = [slots EXCEPT ![c] = HealthResponse(slots[c], 200, "ok")]
    /\ UNCHANGED <<gateVars, storeVars>>

\* The catch block of each route, for an error other than 23505.
CatchResponse(slot) ==
    CASE slot.route = "create" -> ErrorResponse(slot, 500,
             "Failed to save employee record. See server logs for details.")
      [] slot.route = "list" -> ErrorResponse(slot, 500,
             "Unable to load employees right now.")
      [] slot.route = "update" -> ErrorResponse(slot, 500,
             "Failed to update employee. See server logs for details.")
      [] slot.route = "delete" -> ErrorResponse(slot, 500,
             "Failed to delete employee. See server logs for details.")
      [] slot.route = "health" -> HealthResponse(slot, 500, "error")

\* pool.query rejects (the database cannot be reached): the statement has no
\* effect and the route's catch block answers.
QueryFails(c) ==
    /\ slots[c].pc = "query"
    /\ slots' = [slots EXCEPT ![c] = CatchResponse(slots[c])]
    /\ UNCHANGED <<gateVars, storeVars>>

\* The response reaches the client, which may then send its next request.
Complete(c) ==
    /\ slots[c].pc = "done"
    /\ slots' = [slots EXCEPT ![c] = IdleSlot]
    /\ UNCHANGED <<gateVars, storeVars>>

Gate == EnsureTableResolve \/ EnsureTableReject \/ StartListen \/ StartExit

Serve(c) ==
    \/ HandlerResume(c)
    \/ PostQuery(c)
    \/ GetQuery(c)
    \/ PutQuery(c)
    \/ DeleteQuery(c)
    \/ Complete(c)

\* One client at a time: every sequence of requests.
Next ==
    \/ Gate
    \/ Tick
    \/ \E c \in Clients : \E req \in AllRequests : AppRequest(c, req)
    \/ \E c \in Clients : \E req \in AllRequests : HandlerCall(c, req)
    \/ \E c \in Clients : Serve(c)

Spec == Init /\ [][Next]_vars

\* The steps of the inserts and renames of the race.
ServeRace(c) ==
    \/ HandlerResume(c)
    \/ PostQuery(c)
    \/ PutQuery(c)
    \/ Complete(c)

\* Two clients with inserts and renames in flight at the same time.
NextRace ==
    \/ Gate
    \/ Tick
    \/ \E c \in RaceClients : \E req \in RaceRequests : AppRequest(c, req)
    \/ \E c \in RaceClients : \E req \in RaceRequests : HandlerCall(c, req)
    \/ \E c \in RaceClients : ServeRace(c)

SpecRace == Init /\ [][NextRace]_vars

\* Every route, with statements that may fail.
ServeGate(c) ==
    \/ HandlerResume(c)
    \/ PostQuery(c)
    \/ GetQuery(c)
    \/ PutQuery(c)
    \/ DeleteQuery(c)
    \/ HealthQuery(c)
    \/ QueryFails(c)
    \/ Complete(c)

\* One client sending requests from any origin to a configured deployment.
NextGate ==
    \/ Gate
    \/ \E c \in Clients : \E req \in GateRequests : AppRequest(c, req)
    \/ \E c \in Clients : \E req \in GateRequests : HandlerCall(c, req)
    \/ \E c \in Clients : ServeGate(c)

SpecGate == InitGate /\ [][NextGate]_vars

-----------------------------------------------------------------------------
(* Vocabulary of the properties *)

\* The rows of tbl whose number is n.
Holders(tbl, n) == {r \in tbl : r.number = n}

\* The statement of client c's request executes in this step and is answered.
Answers(c, route) ==
    /\ slots[c].pc = "query"
    /\ slots[c].route = route
    /\ slots'[c].pc = "done"

\* Client c holds the response to a request of this route.
Done(c, route) == slots[c].pc = "done" /\ slots[c].route = route

Success(slot) == slot.status \in {200, 201}

\* The number an Update asks for: newNumber without its surrounding whitespace
\* when that is a non-empty string, else the current number.
Asked(slot) ==
    IF slot.newNumber # Undefined /\ Trim(slot.newNumber) # <<>>
    THEN Trim(slot.newNumber)
    ELSE slot.number

-----------------------------------------------------------------------------
(* C1 *)

\* C1 (as claimed): a Create whose number an existing record already holds is
\* answered with 409, and afterwards exactly one record holds that number.
C1_DuplicateCreateConflict ==
    [][\A c \in RaceClients :
          (Answers(c, "create") /\ Holders(table, slots[c].number) # {}) =>
              /\ slots'[c].status = 409
              /\ Cardinality(Holders(table', slots[c].number)) = 1]_vars

-----------------------------------------------------------------------------
(* C2 *)

\* A Create or an Update whose effect would give two rows the same number.
WouldCollide(slot) ==
    \/ /\ slot.route = "create"
       /\ Holders(table, slot.number) # {}
    \/ /\ slot.route = "update"
       /\ Holders(table, slot.number) # {}
       /\ \E r \in table :
              /\ r.number = Asked(slot)
              /\ r.number # slot.number

\* C2: in every reachable state no two records share a number, and a Create or
\* an Update that would make two records share one is answered with an error
\* and leaves every record as it was.
C2_NumberUnique ==
    /\ [](\A r1 \in table : \A r2 \in table : r1.number = r2.number => r1 = r2)
    /\ [][\A c \in RaceClients :
            ((Answers(c, "create") \/ Answers(c, "update")) /\ WouldCollide(slots[c])) =>
                /\ ~Success(slots'[c])
                /\ table' = table]_vars

\* A rename onto the number of another record was rejected; both records live.
C2_Witness ==
    \E c \in RaceClients :
        /\ Done(c, "update")
        /\ slots[c].status = 409
        /\ Cardinality(table) = 2
        /\ Holders(table, slots[c].number) # {}

-----------------------------------------------------------------------------
(* C3 *)

\* C3 (as claimed): of two requests in flight together that would take the
\* same unused number (two Creates, a Create and a rename, two renames),
\* exactly one succeeds and the other is answered with 409.
C3_RaceOneWinner ==
    \A c \in RaceClients : \A d \in RaceClients \ {c} :
        (/\ slots[c].pc = "done" /\ slots[c].paired
         /\ slots[d].pc = "done" /\ slots[d].paired) =>
            \/ Success(slots[c]) /\ slots[d].status = 409
            \/ Success(slots[d]) /\ slots[c].status = 409

-----------------------------------------------------------------------------
(* C4 *)

\* C4 (as claimed): an Update of record A whose newNumber equals the number of
\* a different record B is answered with 409 and changes no record.
C4_RenameOntoSuppliedNumber ==
    [][\A c \in RaceClients :
          (/\ Answers(c, "update")
           /\ \E A \in Holders(table, slots[c].number) : \E B \in table :
                  B # A /\ B.number = slots[c].newNumber) =>
              /\ slots'[c].status = 409
              /\ table' = table]_vars

\* C4 (amended): an Update of record A whose newNumber, with leading and
\* trailing whitespace removed, equals the number of a different record B is
\* answered with 409 and changes no record.
C4_RenameOntoTrimmedNumber ==
    [][\A c \in RaceClients :
          (/\ Answers(c, "update")
           /\ slots[c].newNumber # Undefined
           /\ \E A \in Holders(table, slots[c].number) : \E B \in table :
                  B # A /\ B.number = Trim(slots[c].newNumber)) =>
              /\ slots'[c].status = 409
              /\ table' = table]_vars

\* A rename to " a" was answered 409 because another record holds "a".
C4_Witness ==
    \E c \in RaceClients :
        /\ Done(c, "update")
        /\ slots[c].status = 409
        /\ slots[c].newNumber = <<" ", "a">>
        /\ Holders(table, <<"a">>) # {}
        /\ Holders(table, slots[c].number) # {}
        /\ slots[c].number # <<"a">>

-----------------------------------------------------------------------------
(* C5 *)

\* C5 (as claimed): a successful Update changes exactly the record that holds
\* currentNumber: the name becomes the given one, the number becomes newNumber
\* exactly as supplied when that is provided and non-empty and stays
\* currentNumber otherwise, updatedAt > createdAt, no other record changes.
C5_UpdateAsSupplied ==
    [][\A c \in RaceClients :
          (Answers(c, "update") /\ slots'[c].status = 200) =>
              \E r \in Holders(table, slots[c].number) : \E r2 \in table' :
                  /\ table' \ {r2} = table \ {r}
                  /\ r2.id = r.id
                  /\ r2.name = slots[c].name
                  /\ r2.number = IF Truthy(slots[c].newNumber)
                                 THEN slots[c].newNumber ELSE slots[c].number
                  /\ r2.createdAt = r.createdAt
                  /\ r2.updatedAt > r2.createdAt
                  /\ slots'[c].rows = <<r2>>]_vars

\* C5 (amended): a successful Update changes exactly the record that holds
\* currentNumber: the name becomes the given one, the number becomes newNumber
\* with leading and trailing whitespace removed when newNumber is provided and
\* that trimmed value is non-empty and stays currentNumber otherwise,
\* updatedAt becomes the time of the statement (not before the old updatedAt,
\* hence updatedAt >= createdAt), no other record changes.
C5_UpdateTrimmed ==
    [][\A c \in RaceClients :
          (Answers(c, "update") /\ slots'[c].status = 200) =>
              \E r \in Holders(table, slots[c].number) : \E r2 \in table' :
                  /\ table' \ {r2} = table \ {r}
                  /\ r2.id = r.id
                  /\ r2.name = slots[c].name
                  /\ r2.number = Asked(slots[c])
                  /\ r2.createdAt = r.createdAt
                  /\ r2.updatedAt = now
                  /\ r2.updatedAt >= r.updatedAt
                  /\ r2.updatedAt >= r2.createdAt
                  /\ slots'[c].rows = <<r2>>]_vars

\* Record "b" was renamed with newNumber " a" and now holds "a", beside
\* another record.
C5_Witness ==
    \E c \in RaceClients :
        /\ Done(c, "update")
        /\ slots[c].status = 200
        /\ slots[c].number = <<"b">>
        /\ slots[c].newNumber = <<" ", "a">>
        /\ slots[c].rows[1].number = <<"a">>
        /\ slots[c].rows[1] \in table
        /\ Cardinality(table) = 2

-----------------------------------------------------------------------------
(* C6 *)

\* What one Delete does: 404 and no change when no record holds the number,
\* else 200 {status: 'deleted'} and exactly the holder is removed.
DeleteEffect(c) ==
    Answers(c, "delete") =>
        IF Holders(table, slots[c].number) = {}
        THEN /\ slots'[c].status = 404
             /\ table' = table
        ELSE /\ slots'[c].status = 200
             /\ slots'[c].kind = "deleted"
             /\ Cardinality(Holders(table, slots[c].number)) = 1
             /\ table' = table \ Holders(table, slots[c].number)

\* After a Delete removed the holder of a number in `gone`, a List omits the
\* number and a Delete of it is answered with 404.
StaysDeleted(c, gone) ==
    /\ (Answers(c, "delete") /\ delHist[slots[c].number] \in gone) =>
           slots'[c].status = 404
    /\ Answers(c, "list") =>
           \A i \in 1..Len(slots'[c].rows) : delHist[slots'[c].rows[i].number] \notin gone

\* C6 (as claimed): Delete of a number no record holds returns 404 and changes
\* nothing; Delete of an existing number returns 200 and removes exactly that
\* record; from then on every List omits the number and every Delete of it
\* returns 404, unless the number was inserted again in between.
C6_DeletedUntilInserted ==
    [][\A c \in RaceClients :
          DeleteEffect(c) /\ StaysDeleted(c, {"deleted", "reheld"})]_vars

\* C6 (amended): the same, unless the number was inserted again or another
\* record was renamed to it in between.
C6_DeletedUntilHeldAgain ==
    [][\A c \in RaceClients :
          DeleteEffect(c) /\ StaysDeleted(c, {"deleted"})]_vars

\* A second Delete of a deleted number was answered with 404.
C6_Witness ==
    \E c \in RaceClients :
        /\ Done(c, "delete")
        /\ slots[c].status = 404
        /\ delHist[slots[c].number] = "deleted"

-----------------------------------------------------------------------------
(* C7 *)

\* C7: an Update whose currentNumber no record holds is answered with 404 and
\* changes no record, whatever newNumber it carries.
C7_UpdateMissingIs404 ==
    [][\A c \in RaceClients :
          (Answers(c, "update") /\ Holders(table, slots[c].number) = {}) =>
              /\ slots'[c].status = 404
              /\ table' = table]_vars

\* An Update of a number nobody holds, asking for the number of a live record,
\* was answered with 404.
C7_Witness ==
    \E c \in RaceClients :
        /\ Done(c, "update")
        /\ slots[c].status = 404
        /\ slots[c].newNumber = <<"a">>
        /\ Holders(table, <<"a">>) # {}
        /\ Holders(table, slots[c].number) = {}

-----------------------------------------------------------------------------
(* C8 *)

\* C8: List returns exactly the records in the store, each once, newest
\* createdAt first.
C8_ListExactSorted ==
    [][\A c \in RaceClients :
          Answers(c, "list") =>
              LET rs == slots'[c].rows
              IN  /\ slots'[c].status = 200
                  /\ Len(rs) = Cardinality(table)
                  /\ {rs[i] : i \in 1..Len(rs)} = table
                  /\ \A i \in 1..Len(rs) : \A j \in 1..Len(rs) :
                         i < j => rs[i].createdAt >= rs[j].createdAt
                  /\ table' = table]_vars

\* A List of two records created at different times.
C8_Witness ==
    \E c \in RaceClients :
        /\ Done(c, "list")
        /\ Len(slots[c].rows) = 2
        /\ slots[c].rows[1].createdAt > slots[c].rows[2].createdAt
        /\ {slots[c].rows[1], slots[c].rows[2]} = table

-----------------------------------------------------------------------------
(* C9 *)

IdsOf(tbl) == {r.id : r \in tbl}

\* C9: ids are unique among records and below the sequence; a record that
\* appears gets the sequence's next value and the sequence moves past it, so
\* no id is assigned twice, also after a delete; an Update keeps the id of the
\* record it changes.
C9_IdStable ==
    /\ [](/\ \A r1 \in table : \A r2 \in table : r1.id = r2.id => r1 = r2
          /\ \A r \in table : r.id < nextId)
    /\ [][/\ nextId' >= nextId
          /\ \A r \in table' : r.id \notin IdsOf(table) => (r.id = nextId /\ nextId' > r.id)
          /\ \A c \in RaceClients :
                 Answers(c, "update") =>
                     /\ IdsOf(table') = IdsOf(table)
                     /\ slots'[c].status = 200 =>
                            slots'[c].rows[1].id \in IdsOf(Holders(table, slots[c].number))
          /\ \A c \in RaceClients :
                 (Answers(c, "create") /\ slots'[c].status = 201) =>
                     /\ slots'[c].rows[1].id = nextId
                     /\ slots'[c].rows[1] \in table']_vars

\* After the record with id 1 was deleted, the record with id 2 was renamed
\* and still has id 2.
C9_Witness ==
    \E c \in RaceClients :
        /\ Done(c, "update")
        /\ slots[c].status = 200
        /\ slots[c].rows[1].id = 2
        /\ slots[c].rows[1].number # slots[c].number
        /\ IdsOf(table) = {2}

-----------------------------------------------------------------------------
(* C10 *)

\* C10: createdAt <= updatedAt for every record; an inserted record has
\* createdAt = updatedAt; no Update changes the createdAt of a record.
C10_Timestamps ==
    /\ [](\A r \in table : r.createdAt <= r.updatedAt)
    /\ [][/\ \A r \in table' : r.id \notin IdsOf(table) => r.createdAt = r.updatedAt
          /\ \A c \in RaceClients :
                 (Answers(c, "create") /\ slots'[c].status = 201) =>
                     slots'[c].rows[1].createdAt = slots'[c].rows[1].updatedAt
          /\ \A c \in RaceClients :
                 Answers(c, "update") =>
                     \A r \in table : \A r2 \in table' :
                         r2.id = r.id => r2.createdAt = r.createdAt]_vars

\* A record updated after the clock advanced: updatedAt is later than createdAt.
C10_Witness ==
    \E c \in RaceClients :
        /\ Done(c, "update")
        /\ slots[c].status = 200
        /\ slots[c].rows[1].updatedAt > slots[c].rows[1].createdAt
        /\ slots[c].rows[1] \in table

-----------------------------------------------------------------------------
(* C11 *)

\* The scheme, host and port an origin names; a string that is no URL names
\* only itself.
SchemeHostPort(u) ==
    IF u.valid
    THEN <<u.scheme, u.host, IF u.port = 0 THEN DefaultPort(u.scheme) ELSE u.port>>
    ELSE <<"", u.host, 0>>

\* The allow-set of a request with this Host header: the static defaults, the
\* configured values, and http and https of the Host.
AllowSet(host) ==
    {SchemeHostPort(u) : u \in defaultOrigins}
        \cup {SchemeHostPort(u) : u \in {r \in env.CLIENT_ORIGIN : r.present}}
        \cup (IF env.VERCEL_URL.present
              THEN {<<"https", env.VERCEL_URL.host,
                      IF env.VERCEL_URL.port = 0 THEN 443 ELSE env.VERCEL_URL.port>>}
              ELSE {})
        \cup (IF host.present
              THEN {<<"https", host.host, IF host.port = 0 THEN 443 ELSE host.port>>,
                    <<"http", host.host, IF host.port = 0 THEN 80 ELSE host.port>>}
              ELSE {})

\* The hostname of the origin ends with .vercel.app
OnWildcard(u) ==
    /\ u.valid
    /\ Len(u.host) >= 3
    /\ SubSeq(u.host, Len(u.host) - 1, Len(u.host)) = <<"vercel", "app">>

\* The request may pass the origin gate.
Permitted(slot) ==
    \/ ~slot.origin.present
    \/ SchemeHostPort(slot.origin) \in AllowSet(slot.host)
    \/ OnWildcard(slot.origin)

\* C11: while a request is being handled whose Origin is present, is not in the
\* allow-set and is not on the wildcard domain, no store operation executes:
\* no ensureTable run starts, and schema, rows and sequence stay as they are.
C11_RejectedBeforeStore ==
    [][\A c \in Clients :
           (slots'[c].pc # "idle" /\ ~Permitted(slots'[c])) =>
               /\ ensureTableRuns' = ensureTableRuns
               /\ uniqueIndex' = uniqueIndex
               /\ table' = table
               /\ nextId' = nextId]_vars

-----------------------------------------------------------------------------
(* C12 *)

\* The response of handler when initialization failed.
InitFailed(slot) ==
    slot.pc = "done" /\ slot.kind = "error" /\ slot.error = "API failed to initialize."

\* The origin gate turned the request away.
Rejected(slot) == slot.pc = "done" /\ slot.kind = "html"

\* The request has been through the origin gate.
Gated(slot) == slot.pc \in {"query", "done"} /\ ~InitFailed(slot)

\* C12: a request reaches its route handler exactly when its Origin is absent,
\* or its scheme, host and port are in the allow-set (defaults, configured
\* values without their path, http and https of the request's Host), or its
\* hostname ends with .vercel.app; otherwise the gate rejects it.
C12_GatePermitsExactly ==
    \A c \in Clients :
        Gated(slots[c]) => (Rejected(slots[c]) <=> ~Permitted(slots[c]))

\* A request at its route's statement whose Origin, as sent, is neither a
\* default nor a configured string nor the request's host nor on the wildcard
\* domain: it is in the allow-set only after normalization.
C12_Witness ==
    \E c \in Clients :
        /\ slots[c].pc = "query"
        /\ slots[c].origin.present
        /\ slots[c].origin \notin defaultOrigins \cup env.CLIENT_ORIGIN
        /\ slots[c].origin.host # slots[c].host.host
        /\ ~OnWildcard(slots[c].origin)

-----------------------------------------------------------------------------
(* C13 *)

\* The request of client c has left `await ensureDatabaseReady()`.
Resumed(c) == slots[c].gate # "none" /\ slots[c].pc \in {"query", "done"}

\* C13: at most one ensureTable run is ever started, none before the first
\* call of ensureDatabaseReady; every caller awaits the one promise: none
\* resumes while it is pending, and all that resume see its one outcome.
C13_OneInitialization ==
    /\ ensureTableRuns <= 1
    /\ ensureTableRuns = 0 <=> ensureTablePromise = "undefined"
    /\ \A c \in RaceClients :
           Resumed(c) =>
               /\ ensureTablePromise \in {"fulfilled", "rejected"}
               /\ InitFailed(slots[c]) <=> ensureTablePromise = "rejected"

\* Two first requests in flight together: the first call found no promise and
\* started the run, the second found it pending; both await it.
C13_Witness ==
    /\ ensureTableRuns = 1
    /\ ensureTablePromise = "pending"
    /\ \E c, d \in RaceClients :
           /\ slots[c].pc = "handler" /\ slots[c].gate = "undefined"
           /\ slots[d].pc = "handler" /\ slots[d].gate = "pending"

-----------------------------------------------------------------------------
(* C14 *)

\* The request of client c has been dispatched to its route handler.
Dispatched(c) == slots[c].pc \in {"query", "done"} /\ ~InitFailed(slots[c])

\* C14: a request is dispatched to its route handler only when initialization
\* has succeeded. The standalone process listens only after it succeeded and
\* exits, never having listened, when it failed; when it failed, handler has
\* answered every request it finished with 500 and dispatched none.
C14_InitBeforeDispatch ==
    /\ listening => ensureTablePromise = "fulfilled"
    /\ exited => ~isServerless /\ ensureTablePromise = "rejected" /\ ~listening
    /\ \A c \in Clients :
           /\ Dispatched(c) => ensureTablePromise = "fulfilled"
           /\ (slots[c].pc \in {"query", "done"} /\ ensureTablePromise = "rejected") =>
                  /\ InitFailed(slots[c])
                  /\ slots[c].status = 500

\* The first request of a serverless process, which started initialization
\* and waited for it, at the statement of its route.
C14_Witness ==
    \E c \in Clients :
        /\ slots[c].gate = "undefined"
        /\ slots[c].pc = "query"
        /\ slots[c].route \in {"create", "list", "update", "delete"}
        /\ ensureTablePromise = "fulfilled"

-----------------------------------------------------------------------------
(* C15 *)

\* The field is missing from the request or is the empty string.
Missing(v) == v = Undefined \/ v = <<>>

\* A Create without number or name, or an Update without name.
LacksField(slot) ==
    \/ slot.route = "create" /\ (Missing(slot.number) \/ Missing(slot.name))
    \/ slot.route = "update" /\ Missing(slot.name)

\* C15: a Create whose number or name is missing or empty, and an Update whose
\* name is missing or empty, once dispatched to its route is answered with 400
\* and never waits for a statement; while it is handled, rows and sequence of
\* the store do not change.
C15_MissingFieldIs400 ==
    /\ [](\A c \in Clients :
              (LacksField(slots[c]) /\ Dispatched(c) /\ ~Rejected(slots[c])) =>
                  /\ slots[c].pc = "done"
                  /\ slots[c].status = 400
                  /\ slots[c].kind = "error")
    /\ [][\A c \in Clients :
              (LacksField(slots'[c]) /\ slots'[c].pc # "idle") =>
                  table' = table /\ nextId' = nextId]_vars

\* A Create with a name and an empty or missing number answered with 400 while
\* the store holds a record.
C15_Witness ==
    \E c \in Clients :
        /\ Done(c, "create")
        /\ Missing(slots[c].number) /\ ~Missing(slots[c].name)
        /\ slots[c].status = 400
        /\ table # {}

-----------------------------------------------------------------------------
(* C16 *)

\* C16: every response of a route or of handler whose status is not 2xx has
\* a body { error: string }.
C16_ErrorBodyShape ==
    \A c \in Clients :
        (slots[c].pc = "done" /\ ~Rejected(slots[c]) /\ slots[c].status \notin 200..299) =>
            /\ slots[c].kind = "error"
            /\ slots[c].error # ""

-----------------------------------------------------------------------------
(* C17 *)

\* C17: once the ensureTable run has failed the promise stays rejected and no
\* other run is started; every request leaving handler from then on is
\* answered with 500 'API failed to initialize.', and a request that called
\* handler after the failure never reaches a route.
C17_FailureMemoized ==
    /\ [][ensureTablePromise = "rejected" =>
              /\ ensureTablePromise' = "rejected"
              /\ ensureTableRuns' = ensureTableRuns
              /\ \A c \in RaceClients :
                     (slots[c].pc = "handler" /\ slots'[c].pc # "handler") =>
                         /\ InitFailed(slots'[c])
                         /\ slots'[c].status = 500]_vars
    /\ [](\A c \in RaceClients :
              slots[c].gate = "rejected" =>
                  /\ slots[c].pc \in {"handler", "done"}
                  /\ slots[c].pc = "done" => InitFailed(slots[c]))

\* Two calls of handler made after the one run had failed, both answered
\* with the 500 of the failed initialization.
C17_Witness ==
    /\ ensureTableRuns = 1
    /\ ensureTablePromise = "rejected"
    /\ \A c \in RaceClients :
           /\ slots[c].gate = "rejected"
           /\ InitFailed(slots[c])
           /\ slots[c].status = 500

====
